---- MODULE Spec2Model ----
(***************************************************************************)
(* The two repository-initialisation scripts of kemadev/repo-tmpl:         *)
(*   - the single-template script (src/unnamed/part_000), and              *)
(*   - the multi-template script  (src/unnamed/part_001).                  *)
(* Strings are sequences of one-character strings, file names are such     *)
(* sequences, paths are sequences of file names, and a directory tree is a *)
(* function from the paths of its regular files to their contents.         *)
(*                                                                         *)
(* Spec      models running each script file with bash.                    *)
(* SpecMain  models a call of the function main of the multi-template      *)
(*           script (part_001, lines 69-75) with its helper functions      *)
(*           defined; bash never gets there when it runs the file itself,  *)
(*           see LoadMulti.                                                *)
(***************************************************************************)
EXTENDS Integers, Sequences, FiniteSets, TLC

VARIABLES
    variant,        \* "single" (part_000) or "multi" (part_001)
    pc,             \* position of the run in the script
    arg1,           \* first positional argument ("${1:-}"), <<>> when absent
    origin,         \* what `git remote get-url origin` answers: a URL or NoRemote
    tmpl,           \* the template repository: template name -> tree
    wd,             \* the working directory: path -> content
    wd0,            \* the working directory when the run started (history)
    wd1,            \* the working directory before token substitution (history)
    tmp,            \* the scratch directory ${TEMP}: path -> content
    REPO_NAME,      \* ${REPO_NAME}
    HOST,           \* ${HOST}
    ORG,            \* ${ORG}
    REPO,           \* ${REPO}
    TEMPLATE_NAME,  \* ${TEMPLATE_NAME}
    exitCode,       \* exit status of the process, NoExit while it runs
    out,            \* what the run printed, as a set of message tags
    steps           \* the commands with an effect that ran, in order (history)

vars == << variant, pc, arg1, origin, tmpl, wd, wd0, wd1, tmp, REPO_NAME, HOST,
           ORG, REPO, TEMPLATE_NAME, exitCode, out, steps >>

(***************************************************************************)
(* Bounds of the model.                                                    *)
(***************************************************************************)
\* a repository name of an origin URL is made of at most this many pieces
MaxNameParts == 2
\* a template tree holds at most this many files
MaxFiles == 2

(***************************************************************************)
(* Strings.                                                                *)
(***************************************************************************)
\* REPO_NAME_TEMPLATE_KEY="REPONAMETMPL"
REPO_NAME_TEMPLATE_KEY == <<"R","E","P","O","N","A","M","E","T","M","P","L">>

\* TEMPLATE_SUBDIR="template"
TEMPLATE_SUBDIR == <<"t","e","m","p","l","a","t","e">>

\* the fixed subdirectory of the single-template script: template/go-app
GoApp == <<"g","o","-","a","p","p">>

\* the scheme that ${REPO_URL#https://} strips
HttpsScheme == <<"h","t","t","p","s",":","/","/">>

\* the suffix the optional group (?:\.git)? of REPO_REGEX accepts
DotGit == <<".","g","i","t">>

\* s occurs in t at position i
OccursAt(s, t, i) ==
    /\ i >= 1
    /\ i + Len(s) - 1 <= Len(t)
    /\ SubSeq(t, i, i + Len(s) - 1) = s

\* s occurs somewhere in t
Contains(t, s) == \E i \in 1..Len(t) : OccursAt(s, t, i)

\* "${REPO_URL#https://}": the shortest-prefix removal of bash
StripScheme(url) ==
    IF OccursAt(HttpsScheme, url, 1)
    THEN SubSeq(url, Len(HttpsScheme) + 1, Len(url))
    ELSE url

\* [:space:]
IsSpace(c) == c \in {" ", "\t"}

\* [^\/[:space:]]
IsSegChar(c) == c # "/" /\ ~IsSpace(c)

\* length of the longest run of [^\/[:space:]] characters of s from position i
RECURSIVE SegRun(_, _)
SegRun(s, i) ==
    IF i <= Len(s) /\ IsSegChar(s[i]) THEN 1 + SegRun(s, i + 1) ELSE 0

\* the result of a command substitution: exit status and captured output
NoMatch == [status |-> 1, text |-> <<>>]
Match(t) == [status |-> 0, text |-> t]

(***************************************************************************)
(* Remote identity resolution: the three grep -oP captures of both scripts *)
(* (part_000 lines 10-16, part_001 lines 32-38).                           *)
(***************************************************************************)
\* grep -oP "${HOST_REGEX}(?=.*)": the longest leading run of [^\/[:space:]]
HostGrep(s) ==
    LET h == SegRun(s, 1)
    IN  IF h = 0 THEN NoMatch ELSE Match(SubSeq(s, 1, h))

\* grep -oP "${HOST_REGEX}\/\K${ORG_REGEX}(?=.*)": the run after "host/"
OrgGrep(s) ==
    LET h == SegRun(s, 1)
        o == SegRun(s, h + 2)
    IN  IF h = 0 \/ h + 1 > Len(s) \/ s[h + 1] # "/" \/ o = 0
        THEN NoMatch
        ELSE Match(SubSeq(s, h + 2, h + 1 + o))

\* the lookahead (?=$|\/[^\/[:space:]]+) at position p of s
Lookahead(s, p) ==
    \/ p = Len(s) + 1
    \/ /\ p + 1 <= Len(s)
       /\ s[p] = "/"
       /\ IsSegChar(s[p + 1])

\* ([^[:space:]]+?)(?:\.git)? followed by the lookahead, the lazy group being
\* tried with k, k+1, ... characters from position start: the position of the
\* last character matched, or 0 when nothing matches
RECURSIVE LazyEnd(_, _, _)
LazyEnd(s, start, k) ==
    LET last == start + k - 1
    IN  IF last > Len(s) \/ IsSpace(s[last]) THEN 0
        ELSE IF OccursAt(DotGit, s, last + 1)
                /\ Lookahead(s, last + Len(DotGit) + 1)
             THEN last + Len(DotGit)
        ELSE IF Lookahead(s, last + 1) THEN last
        ELSE LazyEnd(s, start, k + 1)

\* grep -oP "${HOST_REGEX}\/${ORG_REGEX}\/\K${REPO_REGEX}(?=$|\/[^\/[:space:]]+)"
RepoGrep(s) ==
    LET h == SegRun(s, 1)
        o == SegRun(s, h + 2)
        start == h + o + 3
    IN  IF \/ h = 0 \/ h + 1 > Len(s) \/ s[h + 1] # "/"
           \/ o = 0 \/ h + o + 2 > Len(s) \/ s[h + o + 2] # "/"
        THEN NoMatch
        ELSE LET e == LazyEnd(s, start, 1)
             IN  IF e = 0 THEN NoMatch ELSE Match(SubSeq(s, start, e))

\* the regular expression .git of sed "s|.git||g" matches at position i:
\* any one character, then g, i, t
SedGitAt(s, i) ==
    /\ i + 3 <= Len(s)
    /\ SubSeq(s, i + 1, i + 3) = <<"g","i","t">>

RECURSIVE SedStripGitFrom(_, _)
SedStripGitFrom(s, i) ==
    IF i > Len(s) THEN <<>>
    ELSE IF SedGitAt(s, i) THEN SedStripGitFrom(s, i + 4)
    ELSE <<s[i]>> \o SedStripGitFrom(s, i + 1)

\* the capture left as grep prints it, the sed stage forgotten
SedStripGitOmitted(s) == s

\* sed "s|.git||g": every non-overlapping match, left to right, is deleted
SedStripGit(s) == SedStripGitFrom(s, 1)

\* $(echo "${REPO_NAME}" | grep -oP ... | sed "s|.git||g") under pipefail:
\* the status is grep's, the text is what sed prints
RepoCapture(s) ==
    LET g == RepoGrep(s)
    IN  [status |-> g.status, text |-> SedStripGit(g.text)]

(***************************************************************************)
(* Directory trees and the file-system collaborators.                      *)
(***************************************************************************)
\* the tree with no file
EmptyTree == [p \in {} |-> <<>>]

\* the files of b written over the tree a: what b has wins
Overlay(a, b) ==
    [p \in DOMAIN a \cup DOMAIN b |-> IF p \in DOMAIN b THEN b[p] ELSE a[p]]

\* the tree t restricted to the paths of P
Restrict(t, P) == [p \in P |-> t[p]]

\* the tree t put under the directory dir
Under(dir, t) ==
    [q \in {dir \o p : p \in DOMAIN t} |-> t[SubSeq(q, Len(dir) + 1, Len(q))]]

\* the paths of t that lie below the directory dir
Below(t, dir) ==
    {q \in DOMAIN t : Len(q) > Len(dir) /\ SubSeq(q, 1, Len(dir)) = dir}

\* the tree found in the directory dir of t, paths relative to dir
Subtree(t, dir) ==
    [p \in {SubSeq(q, Len(dir) + 1, Len(q)) : q \in Below(t, dir)} |-> t[dir \o p]]

\* [ -d dir ]: git and the model keep no empty directory, so a directory
\* exists when a file lies below it
IsDir(t, dir) == Below(t, dir) # {}

\* a file name that pathname expansion of * skips
IsHidden(name) == name[1] = "."

\* "${REPO_PATH}/"*: the entries of the directory that do not start with a dot
GlobStar(t) == {p[1] : p \in {q \in DOMAIN t : ~IsHidden(q[1])}}

\* the files cp -r "${REPO_PATH}/"* . is asked to copy
GlobbedFiles(t) == Restrict(t, {p \in DOMAIN t : p[1] \in GlobStar(t)})

\* rm -rf "${TEMP}/.git"
RmGit(t) == Restrict(t, {p \in DOMAIN t : p[1] # DotGit})

\* "${TEMP}" of mktemp -d -t init-repo-XXXXXX: the name of the scratch directory
TEMP == <<"i","n","i","t","-","r","e","p","o","-","X">>

\* what git clone --sparse leaves in the scratch directory before any
\* sparse-checkout: the version-control metadata
ClonedMeta == [p \in {<<DotGit, <<"H","E","A","D">> >>} |-> <<"t">>]

\* git sparse-checkout set template/<name>: the files of that template, when
\* the template repository has it
SparseFiles(templates, name) ==
    IF name \in DOMAIN templates
    THEN Under(<<TEMPLATE_SUBDIR, name>>, templates[name])
    ELSE EmptyTree

(***************************************************************************)
(* Token substitution: sed -i "s|${REPO_NAME_TEMPLATE_KEY}|${REPO_NAME}|g" *)
(* (part_001 line 58).  The shell puts the value of ${REPO_NAME} into the  *)
(* text of the sed script, and sed parses that text.                       *)
(***************************************************************************)
\* the script the shell hands to sed
SedScriptText(key, value) == <<"s","|">> \o key \o <<"|">> \o value \o <<"|","g">>

\* the first position from i on where str holds the character c, 0 if none
RECURSIVE IndexFrom(_, _, _)
IndexFrom(str, c, i) ==
    IF i > Len(str) THEN 0
    ELSE IF str[i] = c THEN i
    ELSE IndexFrom(str, c, i + 1)

\* the flags of an s command, read from position i: g, then the end of the
\* script or a ; that ends the command.  next is where the next command
\* starts, 0 at the end of the script.  (The scripts of this model hold no
\* other flag.)
RECURSIVE SedFlags(_, _, _)
SedFlags(str, i, global) ==
    IF i > Len(str) THEN [ok |-> TRUE, global |-> global, next |-> 0]
    ELSE IF str[i] = "g" THEN SedFlags(str, i + 1, TRUE)
    ELSE IF str[i] = ";" THEN [ok |-> TRUE, global |-> global, next |-> i + 1]
    ELSE [ok |-> FALSE, global |-> global, next |-> 0]

\* the commands of the script from position i on: s, a delimiter, the
\* regular expression, the delimiter, the replacement, the delimiter, the
\* flags.  (The scripts of this model hold no other command.)
RECURSIVE SedParse(_, _)
SedParse(str, i) ==
    IF i = 0 \/ i > Len(str) THEN [ok |-> TRUE, cmds |-> <<>>]
    ELSE IF str[i] # "s" \/ i + 1 > Len(str) THEN [ok |-> FALSE, cmds |-> <<>>]
    ELSE LET d == str[i + 1]
             a == IndexFrom(str, d, i + 2)
             b == IF a = 0 THEN 0 ELSE IndexFrom(str, d, a + 1)
         IN  IF b = 0 THEN [ok |-> FALSE, cmds |-> <<>>]
             ELSE LET f == SedFlags(str, b + 1, FALSE)
                      rest == SedParse(str, f.next)
                  IN  IF ~f.ok \/ ~rest.ok THEN [ok |-> FALSE, cmds |-> <<>>]
                      ELSE [ok |-> TRUE,
                            cmds |-> << [re |-> SubSeq(str, i + 2, a - 1),
                                         repl |-> SubSeq(str, a + 1, b - 1),
                                         global |-> f.global] >> \o rest.cmds]

\* what sed writes for one match: & in the replacement is the matched text
RECURSIVE SedReplacement(_, _)
SedReplacement(repl, matched) ==
    IF repl = <<>> THEN <<>>
    ELSE (IF Head(repl) = "&" THEN matched ELSE <<Head(repl)>>)
         \o SedReplacement(Tail(repl), matched)

\* s|key|repl|g on the text s from position i: every non-overlapping
\* occurrence of key, left to right, becomes the replacement
RECURSIVE SedSubstFrom(_, _, _, _)
SedSubstFrom(s, i, key, repl) ==
    IF i > Len(s) THEN <<>>
    ELSE IF OccursAt(key, s, i)
         THEN SedReplacement(repl, key) \o SedSubstFrom(s, i + Len(key), key, repl)
         ELSE <<s[i]>> \o SedSubstFrom(s, i + 1, key, repl)

\* s|key|repl| without the g flag: only the first occurrence is replaced
SedSubstFirstOnly(s, key, repl) ==
    LET o == IndexFrom([i \in 1..Len(s) |-> IF OccursAt(key, s, i) THEN "y" ELSE "n"],
                       "y", 1)
    IN  IF o = 0 THEN s
        ELSE SubSeq(s, 1, o - 1) \o SedReplacement(repl, key)
             \o SubSeq(s, o + Len(key), Len(s))

\* s|key|repl|g
SedSubstAll(s, key, repl) == SedSubstFrom(s, 1, key, repl)

\* s|key|repl| : the first occurrence only
SedSubstFirst(s, key, repl) ==
    LET o == IndexFrom([i \in 1..Len(s) |-> IF OccursAt(key, s, i) THEN "y" ELSE "n"],
                       "y", 1)
    IN  IF o = 0 THEN s
        ELSE SubSeq(s, 1, o - 1) \o SedReplacement(repl, key)
             \o SubSeq(s, o + Len(key), Len(s))

\* the commands of a script applied in order to the content s of a file
\* (the files of the model are one line long)
RECURSIVE SedRun(_, _)
SedRun(cmds, s) ==
    IF cmds = <<>> THEN s
    ELSE LET c == Head(cmds)
         IN  SedRun(Tail(cmds),
                    IF c.global THEN SedSubstAll(s, c.re, c.repl)
                    ELSE SedSubstFirst(s, c.re, c.repl))

\* the script of replace_template_vars for the value of ${REPO_NAME}
SedScript(value) == SedParse(SedScriptText(REPO_NAME_TEMPLATE_KEY, value), 1)

\* find . -type f -exec sed -i ... {} + having rewritten the files of P
SubstituteIn(t, P, value) ==
    [p \in DOMAIN t |->
        IF p \in P THEN SedRun(SedScript(value).cmds, t[p]) ELSE t[p]]

(***************************************************************************)
(* The inputs of a run.                                                    *)
(***************************************************************************)
\* no exit status yet: the process is running
NoExit == 0 - 1

\* the non-zero statuses a failing collaborator returns (git: 128, cp, find: 1)
FailStatuses == {1, 128}

\* there is no remote called origin
NoRemote == <<"no remote">>

\* the sequences of at most n elements of S
RECURSIVE SeqsUpTo(_, _)
SeqsUpTo(S, n) ==
    IF n = 0 THEN {<<>>}
    ELSE LET shorter == SeqsUpTo(S, n - 1)
         IN  shorter \cup {<<x>> \o t : x \in S, t \in {u \in shorter : Len(u) = n - 1}}

\* the concatenation of a sequence of strings
RECURSIVE Flatten(_)
Flatten(ss) == IF ss = <<>> THEN <<>> ELSE Head(ss) \o Flatten(Tail(ss))

\* the pieces repository names are made of
NamePieces ==
    { <<"w">>, <<"d","i","g","i","t">>, REPO_NAME_TEMPLATE_KEY, <<"&">>,
      <<"|",";","s","|","w","|","x">> }

\* repository names, the empty one included
RepoNames == {Flatten(ps) : ps \in SeqsUpTo(NamePieces, MaxNameParts)}

HostName == <<"h",".","i","o">>
OrgName == <<"a","c","m","e">>

\* what may follow the name in a URL
Trailers == { <<>>, <<"/">>, <<"/","x">> }

\* https://host/org/name, with or without .git, with or without a trailer
FullBodies ==
    { HostName \o <<"/">> \o OrgName \o <<"/">> \o n \o g \o t :
        n \in RepoNames \ {<<>>}, g \in {<<>>, DotGit}, t \in Trailers }

\* scheme-stripped remotes that lack the organization or the name
ShortBodies ==
    { <<>>, HostName, HostName \o <<"/">>,
      HostName \o <<"/">> \o OrgName, HostName \o <<"/">> \o OrgName \o <<"/">> }

\* the URLs of the origin remote
OriginURLs == {HttpsScheme \o b : b \in FullBodies \cup ShortBodies}

\* the paths of the files a template may hold
TemplatePaths ==
    { << <<"g","o",".","m","o","d">> >>,
      << <<".","e","n","v">> >>,
      << <<"c","m","d">>, <<".","k">> >> }

\* the contents a file may have
FileContents ==
    { <<"x">>,
      <<"m"," ">> \o REPO_NAME_TEMPLATE_KEY \o <<"/","w">>,
      REPO_NAME_TEMPLATE_KEY \o <<"-">> \o REPO_NAME_TEMPLATE_KEY }

\* the trees a template may be: between one and MaxFiles files
TemplateTrees ==
    UNION { [P -> FileContents] :
              P \in {Q \in SUBSET TemplatePaths : Q # {} /\ Cardinality(Q) <= MaxFiles} }

\* the working directory's own version-control metadata
OwnGit == [p \in {<<DotGit, <<"H","E","A","D">> >>} |-> <<"o">>]

\* the index of a repository that tracks go.mod and REPONAMETMPL/n: it holds
\* the tracked paths as plain text, as the index of a repository made from
\* the template repository holds cmd/REPONAMETMPL/main.go
OwnIndex ==
    [p \in {<<DotGit, <<"i","n","d","e","x">> >>} |->
        <<"g","o",".","m","o","d"," ">> \o REPO_NAME_TEMPLATE_KEY \o <<"/","n">>]

\* the working directories a run may start in: a fresh repository, or one
\* that tracks a go.mod and a note REPONAMETMPL/n mentioning the token
StartDirs ==
    { OwnGit,
      Overlay(Overlay(OwnGit, OwnIndex),
        [p \in {<< <<"g","o",".","m","o","d">> >>, <<REPO_NAME_TEMPLATE_KEY, <<"n">> >>} |->
            IF p = <<REPO_NAME_TEMPLATE_KEY, <<"n">> >>
            THEN <<"(">> \o REPO_NAME_TEMPLATE_KEY \o <<")">>
            ELSE <<"o","l","d">>]) }

\* the template names a user may ask for: none, template/go-app, one that
\* the template repository does not have
Arguments == { <<>>, GoApp, <<"n","o">> }

InitCommon ==
    /\ origin \in OriginURLs \cup {NoRemote}
    /\ tmpl \in {[n \in {GoApp} |-> t] : t \in TemplateTrees}
    /\ wd \in StartDirs
    /\ wd0 = wd
    /\ wd1 = wd
    /\ tmp = EmptyTree
    /\ REPO_NAME = <<>>
    /\ HOST = <<>>
    /\ ORG = <<>>
    /\ REPO = <<>>
    /\ TEMPLATE_NAME = <<>>
    /\ exitCode = NoExit
    /\ out = {}
    /\ steps = <<>>

\* bash is started on one of the two script files
Init ==
    /\ variant \in {"single", "multi"}
    /\ arg1 \in (IF variant = "multi" THEN Arguments ELSE {<<>>})
    /\ pc = "load"
    /\ InitCommon

\* the function main of the multi-template script is called
InitMain ==
    /\ variant = "multi"
    /\ arg1 \in Arguments
    /\ pc = "parse_args"
    /\ InitCommon

\* the process ends with the status code
Exit(code) ==
    /\ pc' = "done"
    /\ exitCode' = code

\* a collaborator fails: set -e ends the run with the collaborator's status
Abort(code) ==
    /\ Exit(code)
    /\ out' = out \cup {"collaborator error"}

(***************************************************************************)
(* The copies of the two scripts.                                          *)
(***************************************************************************)
\* cp -r "${TEMP}/" . : the scratch directory itself is copied into the
\* working directory, the files of P having been written
CpScratch(w, t, P) == Overlay(w, Under(<<TEMP>>, Restrict(t, P)))

\* cp -r "${REPO_PATH}/"* . : the globbed entries of the template directory
\* are copied into the working directory, the files of P having been written
CpTemplate(w, src, P) == Overlay(w, Restrict(GlobbedFiles(src), P))

(***************************************************************************)
(* bash running the single-template script (part_000).                     *)
(***************************************************************************)
\* bash reads the file, defines main and calls it on line 27
LoadSingle ==
    /\ variant = "single"
    /\ pc = "load"
    /\ pc' = "resolve"
    /\ UNCHANGED << variant, arg1, origin, tmpl, wd, wd0, wd1, tmp, REPO_NAME, HOST,
                    ORG, REPO, TEMPLATE_NAME, exitCode, out, steps >>

\* lines 6-16: under set -e each plain assignment whose command substitution
\* fails ends the run with that status
MainResolve ==
    /\ variant = "single"
    /\ pc = "resolve"
    /\ steps' = Append(steps, "resolve")
    /\ IF origin = NoRemote
       THEN /\ \E c \in FailStatuses : Abort(c)
            /\ UNCHANGED << REPO_NAME, HOST, ORG, REPO >>
       ELSE LET name == StripScheme(origin)
                h == HostGrep(name)
                o == OrgGrep(name)
                r == RepoCapture(name)
            IN  /\ REPO_NAME' = name
                /\ HOST' = h.text
                /\ ORG' = IF h.status = 0 THEN o.text ELSE ORG
                /\ REPO' = IF h.status = 0 /\ o.status = 0 THEN r.text ELSE REPO
                /\ out' = out
                /\ IF h.status # 0 THEN Exit(h.status)
                   ELSE IF o.status # 0 THEN Exit(o.status)
                   ELSE IF r.status # 0 THEN Exit(r.status)
                   ELSE pc' = "clone" /\ exitCode' = exitCode
    /\ UNCHANGED << variant, arg1, origin, tmpl, wd, wd0, wd1, tmp, TEMPLATE_NAME >>

\* lines 18-20: mktemp, git clone --filter=blob:none --sparse
MainClone ==
    /\ variant = "single"
    /\ pc = "clone"
    /\ steps' = Append(steps, "clone")
    /\ \E ok \in BOOLEAN :
         IF ok
         THEN /\ tmp' = ClonedMeta
              /\ pc' = "sparse"
              /\ UNCHANGED << exitCode, out >>
         ELSE /\ \E c \in FailStatuses : Abort(c)
              /\ tmp' = tmp
    /\ UNCHANGED << variant, arg1, origin, tmpl, wd, wd0, wd1, REPO_NAME, HOST, ORG,
                    REPO, TEMPLATE_NAME >>

\* line 21: git -C "${TEMP}" sparse-checkout set template/go-app
MainSparse ==
    /\ variant = "single"
    /\ pc = "sparse"
    /\ steps' = Append(steps, "sparse-checkout")
    /\ \E ok \in BOOLEAN :
         IF ok
         THEN /\ tmp' = Overlay(tmp, SparseFiles(tmpl, GoApp))
              /\ pc' = "rm"
              /\ UNCHANGED << exitCode, out >>
         ELSE /\ \E c \in FailStatuses : Abort(c)
              /\ tmp' = tmp
    /\ UNCHANGED << variant, arg1, origin, tmpl, wd, wd0, wd1, REPO_NAME, HOST, ORG,
                    REPO, TEMPLATE_NAME >>

\* line 22: rm -rf "${TEMP}/.git"
MainRmGit ==
    /\ variant = "single"
    /\ pc = "rm"
    /\ steps' = Append(steps, "rm")
    /\ tmp' = RmGit(tmp)
    /\ pc' = "cp"
    /\ UNCHANGED << variant, arg1, origin, tmpl, wd, wd0, wd1, REPO_NAME, HOST, ORG,
                    REPO, TEMPLATE_NAME, exitCode, out >>

\* line 24: cp -r "${TEMP}/" . is the last command: its status is the run's
MainCopy ==
    /\ variant = "single"
    /\ pc = "cp"
    /\ steps' = Append(steps, "cp")
    /\ \E ok \in BOOLEAN :
         IF ok
         THEN /\ wd' = CpScratch(wd, tmp, DOMAIN tmp)
              /\ Exit(0)
              /\ out' = out
         ELSE /\ \E P \in SUBSET DOMAIN tmp : wd' = CpScratch(wd, tmp, P)
              /\ Abort(1)
    /\ wd1' = wd'
    /\ UNCHANGED << variant, arg1, origin, tmpl, wd0, tmp, REPO_NAME, HOST, ORG,
                    REPO, TEMPLATE_NAME >>

(***************************************************************************)
(* bash running the multi-template script (part_001).                      *)
(***************************************************************************)
\* bash reads the file: usage, parse_args, init_repo and replace_template_vars
\* are defined, then the here-document of create_files (line 65) has no line
\* that is exactly EOF (line 66 is `EOF > "${MAIN_FILE_DIR}/main.go"`), so it
\* runs to the end of the file, swallowing the definition of main and the call
\* on line 77; bash reports a syntax error and exits with status 2
LoadMulti ==
    /\ variant = "multi"
    /\ pc = "load"
    /\ Exit(2)
    /\ out' = out \cup {"syntax error"}
    /\ UNCHANGED << variant, arg1, origin, tmpl, wd, wd0, wd1, tmp, REPO_NAME, HOST,
                    ORG, REPO, TEMPLATE_NAME, steps >>

Next ==
    \/ LoadSingle
    \/ MainResolve
    \/ MainClone
    \/ MainSparse
    \/ MainRmGit
    \/ MainCopy
    \/ LoadMulti

Spec == Init /\ [][Next]_vars

(***************************************************************************)
(* The function main of the multi-template script (part_001 lines 69-75):  *)
(* set -euo pipefail; parse_args; init_repo; replace_template_vars.        *)
(***************************************************************************)
\* "${REPO_PATH}": ${TEMP}/${TEMPLATE_SUBDIR}/${TEMPLATE_NAME}, below ${TEMP}
REPO_PATH == <<TEMPLATE_SUBDIR, TEMPLATE_NAME>>

\* parse_args, lines 19-26
ParseArgs ==
    /\ variant = "multi"
    /\ pc = "parse_args"
    /\ steps' = Append(steps, "parse_args")
    /\ IF arg1 = <<>>
       THEN /\ out' = out \cup {"usage"}
            /\ Exit(1)
            /\ TEMPLATE_NAME' = TEMPLATE_NAME
       ELSE /\ TEMPLATE_NAME' = arg1
            /\ pc' = "resolve"
            /\ UNCHANGED << exitCode, out >>
    /\ UNCHANGED << variant, arg1, origin, tmpl, wd, wd0, wd1, tmp, REPO_NAME, HOST,
                    ORG, REPO >>

\* init_repo, lines 29-38: every command substitution is the value of a
\* `local` declaration, whose own status is 0, so no failure of git or grep
\* ends the run; only REPO_NAME is not local
InitRepoResolve ==
    /\ variant = "multi"
    /\ pc = "resolve"
    /\ steps' = Append(steps, "resolve")
    /\ LET REPO_URL == IF origin = NoRemote THEN <<>> ELSE origin
           name == StripScheme(REPO_URL)
       IN  /\ REPO_NAME' = name
           /\ HOST' = HostGrep(name).text
           /\ ORG' = OrgGrep(name).text
           /\ REPO' = RepoCapture(name).text
    /\ out' = IF origin = NoRemote THEN out \cup {"collaborator error"} ELSE out
    /\ pc' = "clone"
    /\ UNCHANGED << variant, arg1, origin, tmpl, wd, wd0, wd1, tmp, TEMPLATE_NAME,
                    exitCode >>

\* init_repo, lines 40-42: mktemp, git clone --filter=blob:none --sparse
InitRepoClone ==
    /\ variant = "multi"
    /\ pc = "clone"
    /\ steps' = Append(steps, "clone")
    /\ \E ok \in BOOLEAN :
         IF ok
         THEN /\ tmp' = ClonedMeta
              /\ pc' = "sparse"
              /\ UNCHANGED << exitCode, out >>
         ELSE /\ \E c \in FailStatuses : Abort(c)
              /\ tmp' = tmp
    /\ UNCHANGED << variant, arg1, origin, tmpl, wd, wd0, wd1, REPO_NAME, HOST, ORG,
                    REPO, TEMPLATE_NAME >>

\* init_repo, line 43: git sparse-checkout set template/${TEMPLATE_NAME}
InitRepoSparse ==
    /\ variant = "multi"
    /\ pc = "sparse"
    /\ steps' = Append(steps, "sparse-checkout")
    /\ \E ok \in BOOLEAN :
         IF ok
         THEN /\ tmp' = Overlay(tmp, SparseFiles(tmpl, TEMPLATE_NAME))
              /\ pc' = "rm"
              /\ UNCHANGED << exitCode, out >>
         ELSE /\ \E c \in FailStatuses : Abort(c)
              /\ tmp' = tmp
    /\ UNCHANGED << variant, arg1, origin, tmpl, wd, wd0, wd1, REPO_NAME, HOST, ORG,
                    REPO, TEMPLATE_NAME >>

\* init_repo, line 44: rm -rf "${TEMP}/.git"
InitRepoRmGit ==
    /\ variant = "multi"
    /\ pc = "rm"
    /\ steps' = Append(steps, "rm")
    /\ tmp' = RmGit(tmp)
    /\ pc' = "check"
    /\ UNCHANGED << variant, arg1, origin, tmpl, wd, wd0, wd1, REPO_NAME, HOST, ORG,
                    REPO, TEMPLATE_NAME, exitCode, out >>

\* init_repo, lines 46-52: [ ! -d "${REPO_PATH}" ]
InitRepoCheck ==
    /\ variant = "multi"
    /\ pc = "check"
    /\ steps' = Append(steps, "check")
    /\ IF ~IsDir(tmp, REPO_PATH)
       THEN /\ out' = out \cup {"does not exist in remote", "usage"}
            /\ Exit(1)
       ELSE /\ pc' = "cp"
            /\ UNCHANGED << exitCode, out >>
    /\ UNCHANGED << variant, arg1, origin, tmpl, wd, wd0, wd1, tmp, REPO_NAME, HOST,
                    ORG, REPO, TEMPLATE_NAME >>

\* init_repo, line 54: cp -r "${REPO_PATH}/"* . ; a pattern that matches
\* nothing is passed on as it is and cp cannot stat it
InitRepoCopy ==
    /\ variant = "multi"
    /\ pc = "cp"
    /\ steps' = Append(steps, "cp")
    /\ LET src == Subtree(tmp, REPO_PATH)
           all == DOMAIN GlobbedFiles(src)
       IN  IF GlobStar(src) = {}
           THEN /\ wd' = wd
                /\ Abort(1)
           ELSE \E ok \in BOOLEAN :
                  IF ok
                  THEN /\ wd' = CpTemplate(wd, src, all)
                       /\ pc' = "sed"
                       /\ UNCHANGED << exitCode, out >>
                  ELSE /\ \E P \in SUBSET all : wd' = CpTemplate(wd, src, P)
                       /\ Abort(1)
    /\ wd1' = wd'
    /\ UNCHANGED << variant, arg1, origin, tmpl, wd0, tmp, REPO_NAME, HOST, ORG,
                    REPO, TEMPLATE_NAME >>

\* replace_template_vars, lines 57-59: the last command of main, its status
\* is the status of the call
ReplaceTemplateVars ==
    /\ variant = "multi"
    /\ pc = "sed"
    /\ steps' = Append(steps, "sed")
    /\ IF ~SedScript(REPO_NAME).ok
       THEN /\ wd' = wd
            /\ Abort(1)
       ELSE \E ok \in BOOLEAN :
              IF ok
              THEN /\ wd' = SubstituteIn(wd, DOMAIN wd, REPO_NAME)
                   /\ Exit(0)
                   /\ out' = out
              ELSE /\ \E P \in SUBSET DOMAIN wd : wd' = SubstituteIn(wd, P, REPO_NAME)
                   /\ Abort(1)
    /\ UNCHANGED << variant, arg1, origin, tmpl, wd0, wd1, tmp, REPO_NAME, HOST, ORG,
                    REPO, TEMPLATE_NAME >>

NextMain ==
    \/ ParseArgs
    \/ InitRepoResolve
    \/ InitRepoClone
    \/ InitRepoSparse
    \/ InitRepoRmGit
    \/ InitRepoCheck
    \/ InitRepoCopy
    \/ ReplaceTemplateVars

SpecMain == InitMain /\ [][NextMain]_vars

(***************************************************************************)
(* Vocabulary of the properties.                                           *)
(***************************************************************************)
\* the stage ran (it was at least started)
Ran(stage) == \E i \in DOMAIN steps : steps[i] = stage

\* the stages that come after identity resolution
LaterStages == {"clone", "sparse-checkout", "rm", "cp", "sed"}

\* the run is over and succeeded
Succeeded == pc = "done" /\ exitCode = 0

\* https://host/org/<n><g><t>
UrlOf(n, g, t) ==
    HttpsScheme \o HostName \o <<"/">> \o OrgName \o <<"/">> \o n \o g \o t

\* host/org/<n>
FullName(n) == HostName \o <<"/">> \o OrgName \o <<"/">> \o n

\* the characters of an everyday repository name
PlainChars ==
    { "a","b","c","d","e","f","g","h","i","j","k","l","m","n","o","p","q","r",
      "s","t","u","v","w","x","y","z","0","1","2","3","4","5","6","7","8","9",
      ".","-","_" }

IsPlainName(n) == n # <<>> /\ \A i \in 1..Len(n) : n[i] \in PlainChars

\* the origin URL lacks the organization segment or the name segment
MalformedOrigin == origin \in {HttpsScheme \o b : b \in ShortBodies}

\* the template the run fetches
FetchedTemplate == IF variant = "single" THEN GoApp ELSE TEMPLATE_NAME

\* where the token occurs in s
Occurrences(s) == {i \in 1..Len(s) : OccursAt(REPO_NAME_TEMPLATE_KEY, s, i)}

\* position i of s lies inside an occurrence of the token
Covered(s, i) ==
    \E o \in Occurrences(s) : o <= i /\ i < o + Len(REPO_NAME_TEMPLATE_KEY)

\* how far position i of s moves when every occurrence of the token before
\* it is replaced by a text of xl characters
Shift(s, i, xl) ==
    Cardinality({o \in Occurrences(s) : o < i}) * (xl - Len(REPO_NAME_TEMPLATE_KEY))

\* after is before with each occurrence of the token replaced by some xl
\* characters, every character outside the occurrences kept in its place
OnlyTokensChanged(before, after, xl) ==
    /\ Len(after) = Len(before) + Shift(before, Len(before) + 1, xl)
    /\ \A i \in 1..Len(before) :
         ~Covered(before, i) => after[i + Shift(before, i, xl)] = before[i]

\* after is before with each occurrence of the token replaced by the text x
TokensReplacedBy(before, after, x) ==
    /\ OnlyTokensChanged(before, after, Len(x))
    /\ \A o \in Occurrences(before) :
         LET at == o + Shift(before, o, Len(x))
         IN  SubSeq(after, at, at + Len(x) - 1) = x

(***************************************************************************)
(* C1.  After a successful run whose origin is https://host/org/name.git,  *)
(* every file of the working directory holds host/org/name (or name) where *)
(* it held the token before substitution, and the token is left nowhere.   *)
(***************************************************************************)
C1_TokenReplaced ==
    \A n \in RepoNames :
       (IsPlainName(n) /\ origin = UrlOf(n, DotGit, <<>>) /\ Succeeded) =>
          \E v \in {FullName(n), n} :
             \A p \in DOMAIN wd :
                /\ ~Contains(wd[p], REPO_NAME_TEMPLATE_KEY)
                /\ TokensReplacedBy(wd1[p], wd[p], v)

(***************************************************************************)
(* C2.  When the origin URL lacks the organization or the name, identity   *)
(* resolution fails and the run ends there with a non-zero status: no      *)
(* clone, sparse-checkout, metadata deletion, copy or substitution runs    *)
(* and the working directory is as it was.                                 *)
(***************************************************************************)
C2_MalformedAborts ==
    MalformedOrigin =>
       /\ \A i \in DOMAIN steps : steps[i] \notin LaterStages
       /\ Ran("resolve") => (pc = "done" /\ exitCode # 0)
       /\ wd = wd0

(***************************************************************************)
(* C3.  After the copy of a successful run, every file of the fetched      *)
(* template, dot files included, is in the working directory at the same   *)
(* relative path with the same content.                                    *)
(***************************************************************************)
C3_CopyPreservesPaths ==
    (Succeeded /\ Ran("cp") /\ FetchedTemplate \in DOMAIN tmpl) =>
       \A p \in DOMAIN tmpl[FetchedTemplate] :
          /\ p \in DOMAIN wd1
          /\ wd1[p] = tmpl[FetchedTemplate][p]

(***************************************************************************)
(* C4.  A run of the multi-template script that asks for a template the    *)
(* fetched template repository does not have prints "<subdir>/<name> does  *)
(* not exist in remote", exits with 1 and leaves the working directory as  *)
(* it was; a run whose clone failed does not print that message.           *)
(***************************************************************************)
C4_TemplateNotFound ==
    /\ ( /\ variant = "multi"
         /\ pc = "done"
         /\ arg1 # <<>>
         /\ arg1 \notin DOMAIN tmpl
         /\ "collaborator error" \notin out )
       => ( /\ "does not exist in remote" \in out
            /\ exitCode = 1
            /\ wd = wd0 )
    /\ (pc = "done" /\ Ran("clone") /\ ~Ran("sparse-checkout"))
       => "does not exist in remote" \notin out

(***************************************************************************)
(* C5.  A run of the multi-template script without a first argument prints *)
(* the usage text and exits with 1, before it reads the remote or clones,  *)
(* and leaves the working directory as it was.                             *)
(***************************************************************************)
C5_UsageOnMissingArgument ==
    (variant = "multi" /\ pc = "done" /\ arg1 = <<>>) =>
       /\ "usage" \in out
       /\ exitCode = 1
       /\ wd = wd0
       /\ \A i \in DOMAIN steps : steps[i] \notin {"resolve"} \cup LaterStages

(***************************************************************************)
(* C6.  A terminated run has exit code 0 exactly when identity resolution, *)
(* fetch, metadata deletion, copy and substitution all succeeded, and exit *)
(* code 1 in every other case.                                             *)
(***************************************************************************)
AllStagesSucceeded ==
    /\ \A st \in {"resolve"} \cup LaterStages : Ran(st)
    /\ "collaborator error" \notin out
    /\ HOST # <<>> /\ ORG # <<>> /\ REPO # <<>>

\* C6: the exit code of a terminated run is 0 when every stage succeeded and
\* 1 otherwise
C6_ExitCodes ==
    pc = "done" =>
       /\ exitCode \in {0, 1}
       /\ exitCode = 0 <=> AllStagesSucceeded

(***************************************************************************)
(* C7.  Token substitution is idempotent: once replace_template_vars has   *)
(* succeeded, applying it again changes no file, and the token is left in  *)
(* no file.  As stated for every replacement value, and as amended for the *)
(* values that are not empty and hold neither a letter of the token nor a  *)
(* character that is special to sed.                                       *)
(***************************************************************************)
\* a second application of replace_template_vars changes nothing
SecondSubstitutionIsNoOp ==
    /\ SubstituteIn(wd, DOMAIN wd, REPO_NAME) = wd
    /\ \A p \in DOMAIN wd : ~Contains(wd[p], REPO_NAME_TEMPLATE_KEY)

\* the letters of the token
TokenLetters == {REPO_NAME_TEMPLATE_KEY[i] : i \in DOMAIN REPO_NAME_TEMPLATE_KEY}

\* the characters sed gives a meaning to in s|...|...|g
SedSpecials == {"&", "|", "\\"}

SafeValue(v) ==
    /\ v # <<>>
    /\ \A i \in 1..Len(v) : v[i] \notin TokenLetters \cup SedSpecials

FramePreserved ==
    \A p \in DOMAIN wd1 :
       /\ p \in DOMAIN wd
       /\ Occurrences(wd1[p]) = {} => wd[p] = wd1[p]
       /\ \E xl \in 0..Len(wd[p]) : OnlyTokensChanged(wd1[p], wd[p], xl)

\* C8: once replace_template_vars has succeeded, every file is as it was
\* outside the occurrences of the token
C8_OnlyTokensChange == (Succeeded /\ Ran("sed")) => FramePreserved

\* the same for the replacement values without the delimiter | of the script
FramePreservedWithoutDelimiter ==
    (Ran("sed") /\ ~Contains(REPO_NAME, <<"|">>)) => FramePreserved

(***************************************************************************)
(* C9.  Resolving https://host/org/name and https://host/org/name.git      *)
(* gives the same host, organization and name.                             *)
(***************************************************************************)
\* what the three captures give for a URL
Identity(url) ==
    LET name == StripScheme(url)
    IN  << HostGrep(name).text, OrgGrep(name).text, RepoCapture(name).text >>

\* identity resolution ran and did not end the run
Resolved == Ran("resolve") /\ ~(pc = "done" /\ steps = <<"resolve">>)

\* C9: the resolved host, organization and name are those of the URL with
\* the .git suffix and those of the URL without it
C9_SuffixIrrelevant ==
    \A n \in RepoNames \ {<<>>} :
       (Ran("resolve") /\ origin \in {UrlOf(n, <<>>, <<>>), UrlOf(n, DotGit, <<>>)}) =>
          /\ Resolved
          /\ HOST = HostName
          /\ ORG = OrgName
          /\ << HOST, ORG, REPO >> = Identity(UrlOf(n, <<>>, <<>>))
          /\ << HOST, ORG, REPO >> = Identity(UrlOf(n, DotGit, <<>>))

C9_Witness ==
    /\ pc = "clone"
    /\ REPO # <<>>
    /\ \E n \in RepoNames \ {<<>>} : origin = UrlOf(n, DotGit, <<>>)

(***************************************************************************)
(* C10.  For a remote host/org/name, with or without .git, with or without *)
(* a trailing slash or further segments, REPO is exactly name: the third   *)
(* segment without its .git suffix, no other character dropped.            *)
(***************************************************************************)
C10_NameIsThirdSegment ==
    \A n \in RepoNames, g \in {<<>>, DotGit}, t \in Trailers :
       (IsPlainName(n) /\ Ran("resolve") /\ origin = UrlOf(n, g, t)) =>
          (Resolved /\ REPO = n)

(***************************************************************************)
(* C11.  The .git directory of the scratch clone is deleted after the      *)
(* clone and the sparse-checkout and before any file is written into the   *)
(* working directory; so no step copies the scratch clone's .git into the  *)
(* working directory, and the working directory's own .git is never        *)
(* deleted or replaced.                                                    *)
(***************************************************************************)
\* the place of the stage in the run, 0 when it did not run
PosOf(stage) ==
    IF Ran(stage) THEN CHOOSE i \in DOMAIN steps : steps[i] = stage ELSE 0

\* the scratch directory holds version-control metadata
ScratchHasGit == \E p \in DOMAIN tmp : p[1] = DotGit

\* the path goes through a directory named .git
ThroughGit(p) == \E i \in 1..Len(p) : p[i] = DotGit

\* the files of the working directory's own .git when the run started
OwnGitPaths == {p \in DOMAIN wd0 : p[1] = DotGit}

\* the deletion comes after the clone and the sparse-checkout, and before
\* the copy and before any change of the working directory
DeletedInOrder ==
    /\ Ran("rm") =>
          /\ 0 < PosOf("clone")
          /\ PosOf("clone") < PosOf("sparse-checkout")
          /\ PosOf("sparse-checkout") < PosOf("rm")
          /\ ~ScratchHasGit
    /\ Ran("cp") => (0 < PosOf("rm") /\ PosOf("rm") < PosOf("cp"))
    /\ pc = "cp" => (Ran("rm") /\ ~ScratchHasGit)
    /\ wd # wd0 => (Ran("rm") /\ ~ScratchHasGit)

\* no file the run added to the working directory lies in a .git directory
NoScratchGitCopied == \A p \in DOMAIN wd \ DOMAIN wd0 : ~ThroughGit(p)

\* every file of the working directory's own .git is there, as it was
OwnGitKept == \A p \in OwnGitPaths : p \in DOMAIN wd /\ wd[p] = wd0[p]

\* the origin is https://host/org/name.git with an everyday name
PlainOrigin == \E n \in RepoNames : IsPlainName(n) /\ origin = UrlOf(n, DotGit, <<>>)

C11_UntouchedUpToCopy ==
    /\ DeletedInOrder
    /\ NoScratchGitCopied
    /\ ~Ran("sed") => OwnGitKept

====
